---- MODULE Spec2Model ----
(***************************************************************************)
(* Work-queue protocol of v3_emitter_of_tasks.py (the producer) and        *)
(* v3_listening_worker.py (the workers) over one RabbitMQ queue.           *)
(*                                                                         *)
(* The producer and the workers are translated from the two scripts.  The  *)
(* broker is the far side of the pika calls the scripts make               *)
(* (queue_declare, basic_publish, basic_qos, basic_consume, basic_ack):    *)
(* each call is modelled with the effect AMQP 0-9-1 / RabbitMQ gives it    *)
(* for the arguments the scripts pass.                                     *)
(***************************************************************************)
EXTENDS Integers, Sequences, FiniteSets, TLC

\* ---------------------------------------------------------------- bounds

\* Number of worker processes (instances of v3_listening_worker.py).  The
\* instances run the same script, so they are numbered in the order in which
\* they are launched: worker w is the w-th instance.
NumWorkers == 3
\* Largest number of records in tasks.csv.
MaxRows == 3
\* Largest number of broker restarts.
MaxRestarts == 1
\* Longest payload of the one-task batches.
MaxPayload == 5

Workers == 1..NumWorkers

\* ------------------------------------------------------ program constants

\* v3_listening_worker.py:71  ch.basic_qos(prefetch_count=1)
prefetch_count_mutant == 1 + 1
prefetch_count == 1

\* v3_listening_worker.py:76  basic_consume(queue=..., on_message_callback=...)
\* passes no auto_ack, and pika's default is auto_ack=False (manual acks).
auto_ack_mutant == TRUE
auto_ack == FALSE

\* v3_listening_worker.py:54  the callback ends with ch.basic_ack(...)
AckVerb_nack == "basic_nack"
AckVerb == "basic_ack"

\* v3_listening_worker.py:84-89  the KeyboardInterrupt handler only prints and
\* exits; it sends nothing on the channel.
ShutdownAcks_mutant == TRUE
ShutdownAcks == FALSE

\* v3_emitter_of_tasks.py:59 and v3_listening_worker.py:60  durable=True
queue_durable == TRUE

\* v3_emitter_of_tasks.py:62  basic_publish(exchange="", routing_key=..., body=...)
\* passes no properties, so delivery_mode is unset: the message is transient.
message_persistent == FALSE

\* v3_emitter_of_tasks.py:65-67  on AMQPConnectionError: print, then sys.exit(1)
OnSendFailure_continue == "continue"
OnSendFailure == "exit"

\* v3_emitter_of_tasks.py:67 and :93  sys.exit(1)
send_exit_status == 1
read_exit_status == 1
\* v3_listening_worker.py:89  os._exit(0)
interrupt_exit_status_mutant == 0 + 1
interrupt_exit_status == 0

\* A process's exit statuses: none while it runs, one once it has exited.
Running == {}
Exited(status) == {status}
\* The end of a worker process (worker 0: none yet, or several at once).
NoExit == [worker |-> 0, how |-> "none", status |-> Running]
WorkerExit(w, how, status) == [worker |-> w, how |-> how, status |-> Exited(status)]

\* ------------------------------------------------------------- task source

\* The i-th record of tasks.csv as csv.reader yields it: a list of fields, the
\* empty list for a blank line.  Payloads are sequences of characters: a
\* letter followed by dots.
Dots(n) == [j \in 1..n |-> "."]
Row(i) ==
    CASE i % 4 = 1 -> << <<"x">> \o Dots(1) >>
      [] i % 4 = 2 -> << <<"y">> \o Dots(2), <<"n">> >>
      [] i % 4 = 3 -> << <<"z">> \o Dots(3) >>
      [] OTHER     -> << >>

\* The files the producer may find: no file at all, or the first n records.
Missing == [exists |-> FALSE, rows |-> <<>>]
Files == {Missing} \cup
         { [exists |-> TRUE, rows |-> [i \in 1..n |-> Row(i)]] : n \in 0..MaxRows }

\* The records csv.reader can yield for one line: [] for a blank line, ['']
\* for a line holding only "", ['', 'n'] for the line ",n", and records with
\* a payload in the first field.
RowKinds == { << >>,
              << << >> >>,
              << << >>, <<"n">> >>,
              << <<"x">> \o Dots(1) >>,
              << <<"y">> \o Dots(2), <<"n">> >> }
\* Every tasks.csv of at most MaxRows such records, and no file at all.
CsvFiles == {Missing} \cup
            { [exists |-> TRUE, rows |-> rs] :
                  rs \in UNION { [1..n -> RowKinds] : n \in 0..MaxRows } }

\* ------------------------------------------------------------------ state

VARIABLES
    ppc,         \* producer: "start", "send", "done", "failed"
    tasks,       \* producer: the list read_tasks_from_csv returned
    idx,         \* producer: position of the main loop in tasks (1-based)
    pexit,       \* producer: exit status, Running while it runs
    perrors,     \* producer: the error lines it printed
    csvfile,     \* the tasks.csv on disk, in the specifications that fix it at the
                 \* start (SpecCsv, SpecWork); the others draw the file at the read
    qexists,     \* broker: the queue task_queue3 is declared
    published,   \* broker: payloads accepted, in order; a message's id is its index
    pending,     \* broker: ids of the ready messages, head first
    unacked,     \* broker: per consumer, its delivered-unacknowledged [tag, id]
    consumers,   \* broker: the registered consumers, in dispatch rotation order
    acked,       \* broker: ids for which a basic_ack was received
    restarts,    \* broker: how often it has restarted
    wpc,         \* worker: "Idle", "Awaiting", "Processing", "Acknowledging", "Disconnected"
    delivered,   \* worker: deliveries received and not finished, the callback's first
    nextTag,     \* worker channel: the next delivery tag
    wexit,       \* workers: which one ended last, how, and its exit status
    deliveries,  \* history: per message id, how often it was delivered
    holderDisc,  \* history: per message id, how often its holder disconnected
    procLog,     \* history: completed simulated work, [id, worker, secs]
    ackLog,      \* history: acknowledgments sent, [id, worker, tag, by]
    fresh        \* history: the workers that connected after the last disconnect

prodVars == <<ppc, tasks, idx, pexit, perrors, csvfile>>
brokerVars == <<qexists, published, pending, unacked, consumers, acked, restarts>>
workerVars == <<wpc, delivered, nextTag, wexit>>
histVars == <<deliveries, holderDisc, procLog, ackLog, fresh>>
vars == <<prodVars, brokerVars, workerVars, histVars>>

\* ---------------------------------------------------------------- helpers

RECURSIVE SeqToSet(_)
SeqToSet(s) == IF s = <<>> THEN {} ELSE {Head(s)} \cup SeqToSet(Tail(s))

RECURSIVE Without(_, _)
\* s without the elements equal to x
Without(s, x) ==
    IF s = <<>> THEN <<>>
    ELSE IF Head(s) = x THEN Without(Tail(s), x)
    ELSE <<Head(s)>> \o Without(Tail(s), x)

\* The ids of a sequence of [tag, id] deliveries.
Ids(ds) == { ds[i].id : i \in DOMAIN ds }

RECURSIVE Merge(_, _)
\* Two ascending sequences of ids merged into one.
Merge(a, b) ==
    IF a = <<>> THEN b
    ELSE IF b = <<>> THEN a
    ELSE IF Head(a) <= Head(b) THEN <<Head(a)>> \o Merge(Tail(a), b)
    ELSE <<Head(b)>> \o Merge(a, Tail(b))

\* (a sleep for the length of the body)
Count_length(s, c) == Len(s)
RECURSIVE Count(_, _)
\* bytes.count: the occurrences of c in the payload s.
Count(s, c) ==
    IF s = <<>> THEN 0
    ELSE (IF Head(s) = c THEN 1 ELSE 0) + Count(Tail(s), c)

\* ----------------------------------------------------------------- broker

\* The queue task_queue3 as a declaration sees it.
Queue == [exists |-> qexists, ready |-> pending]
\* (a declaration that recreates the queue, empty)
queue_declare_purge(q) == [exists |-> TRUE, ready |-> <<>>]
\* queue_declare(queue="task_queue3", durable=True): creates the queue, empty,
\* if it does not exist; an existing queue of the same durability is left as
\* it is.
queue_declare(q) ==
    IF q.exists THEN q ELSE [exists |-> TRUE, ready |-> <<>>]

\* Requeue of a closed consumer's unacknowledged deliveries: RabbitMQ puts a
\* requeued message back at its original position in the queue, and ids are
\* enqueue positions, so the ready list stays ascending.
Requeue(ready, ds) ==
    Merge(ready, [i \in DOMAIN ds |-> ds[i].id])

\* A consumer may be sent a message while it holds fewer than prefetch_count
\* unacknowledged ones.
HasCredit(w) == Len(unacked[w]) < prefetch_count

RECURSIVE FirstWithCredit(_)
FirstWithCredit(cs) ==
    IF cs = <<>> THEN 0
    ELSE IF HasCredit(Head(cs)) THEN Head(cs)
    ELSE FirstWithCredit(Tail(cs))

\* (a dispatch without rotation: the lowest-numbered consumer with credit)
NextConsumer_lowest ==
    IF \E w \in SeqToSet(consumers) : HasCredit(w)
    THEN CHOOSE w \in SeqToSet(consumers) :
             HasCredit(w) /\ \A v \in SeqToSet(consumers) : HasCredit(v) => w <= v
    ELSE 0
\* Round-robin dispatch: the consumer the next ready message goes to is the
\* first one in rotation order with credit (0: none).
NextConsumer == FirstWithCredit(consumers)

\* The message dispatched next: the head of the ready list.
NextMessage == Head(pending)

\* What a broker restart keeps of the ready and unacknowledged messages: a
\* durable queue keeps its persistent messages and loses its transient ones.
SurvivesRestart(ids) ==
    IF queue_durable /\ message_persistent THEN ids ELSE <<>>

\* --------------------------------------------------------------- producer

\* read_tasks_from_csv: the first field of every non-empty record, in order.
RECURSIVE ReadRows(_)
ReadRows(rows) ==
    IF rows = <<>> THEN <<>>
    ELSE IF Head(rows) # <<>> THEN <<Head(rows)[1]>> \o ReadRows(Tail(rows))
    ELSE ReadRows(Tail(rows))

\* read_tasks_from_csv("tasks.csv") at the start of __main__, on the file it
\* finds; with no task the for loop ends at once and the script ends normally.
ReadTasks(file) ==
    /\ ppc = "start"
    /\ IF file = Missing
       THEN /\ perrors' = perrors \cup {"FileNotFoundError"}
            /\ pexit' = Exited(read_exit_status)
            /\ ppc' = "failed"
            /\ UNCHANGED tasks
       ELSE /\ tasks' = ReadRows(file.rows)
            /\ ppc' = IF tasks' = <<>> THEN "done" ELSE "send"
            /\ pexit' = IF tasks' = <<>> THEN Exited(0) ELSE Running
            /\ UNCHANGED perrors
    /\ UNCHANGED <<idx, csvfile, brokerVars, workerVars, histVars>>

\* One iteration of the main loop whose send_message call succeeds:
\* connect, queue_declare(durable), basic_publish, print, close.
SendMessage ==
    /\ ppc = "send"
    /\ qexists' = queue_declare(Queue).exists
    /\ published' = Append(published, tasks[idx])
    /\ pending' = Append(queue_declare(Queue).ready, Len(published) + 1)
    /\ deliveries' = Append(deliveries, 0)
    /\ holderDisc' = Append(holderDisc, 0)
    /\ idx' = idx + 1
    /\ ppc' = IF idx = Len(tasks) THEN "done" ELSE "send"
    /\ pexit' = IF idx = Len(tasks) THEN Exited(0) ELSE Running
    /\ UNCHANGED <<tasks, perrors, csvfile, unacked, consumers, acked, restarts,
                   workerVars, procLog, ackLog, fresh>>

\* One iteration whose send_message call fails with AMQPConnectionError, at
\* BlockingConnection ("connect": conn is never bound) or after it, before the
\* publish ("lost").  The handler prints the error and calls sys.exit(1);
\* the finally clause then calls conn.close(), which raises (UnboundLocalError
\* when conn is unbound, a wrong-state error when the connection is gone) and
\* replaces the SystemExit; the exception is uncaught and Python ends the
\* process with status 1 either way.
SendMessageFails(at) ==
    /\ ppc = "send"
    /\ perrors' = perrors \cup
           {"AMQPConnectionError",
            IF at = "connect" THEN "UnboundLocalError" ELSE "ConnectionWrongStateError"}
    /\ IF OnSendFailure = "exit"
       THEN /\ ppc' = "failed"
            /\ pexit' = Exited(send_exit_status)
            /\ UNCHANGED idx
       ELSE /\ idx' = idx + 1
            /\ ppc' = IF idx = Len(tasks) THEN "done" ELSE "send"
            /\ pexit' = IF idx = Len(tasks) THEN Exited(0) ELSE Running
    /\ UNCHANGED <<tasks, csvfile, brokerVars, workerVars, histVars>>

\* ----------------------------------------------------------------- worker

\* Worker w has been launched: the instances before it have.
Launched(w) == \A v \in Workers : v < w => wpc[v] # "Idle"

\* listen_for_tasks up to start_consuming: connect, declare the durable
\* queue, basic_qos(prefetch_count), basic_consume: the worker becomes the
\* last consumer of the rotation.
StartWorker(w) ==
    /\ wpc[w] = "Idle"
    /\ Launched(w)
    /\ wpc' = [wpc EXCEPT ![w] = "Awaiting"]
    /\ qexists' = queue_declare(Queue).exists
    /\ pending' = queue_declare(Queue).ready
    /\ consumers' = Append(consumers, w)
    /\ fresh' = fresh \cup {w}
    /\ UNCHANGED <<prodVars, published, unacked, acked, restarts,
                   delivered, nextTag, wexit, deliveries, holderDisc, procLog, ackLog>>

\* The broker sends the next ready message to the next consumer in rotation,
\* which goes to the back of the rotation.  Without auto_ack the message is
\* kept as unacknowledged; with it the broker forgets it at once.  A waiting
\* worker enters callback (prints Received, starts to sleep); a busy one has
\* the delivery buffered by its client.
Deliver(w) ==
    /\ pending # <<>>
    /\ w = NextConsumer
    /\ LET d == [tag |-> nextTag[w], id |-> NextMessage] IN
        /\ pending' = Without(pending, d.id)
        /\ unacked' = IF auto_ack THEN unacked
                      ELSE [unacked EXCEPT ![w] = Append(@, d)]
        /\ delivered' = [delivered EXCEPT ![w] = Append(@, d)]
        /\ deliveries' = [deliveries EXCEPT ![d.id] = @ + 1]
    /\ nextTag' = [nextTag EXCEPT ![w] = @ + 1]
    /\ consumers' = Append(Without(consumers, w), w)
    /\ wpc' = [wpc EXCEPT ![w] = IF @ = "Awaiting" THEN "Processing" ELSE @]
    /\ UNCHANGED <<prodVars, qexists, published, acked, restarts, wexit,
                   holderDisc, procLog, ackLog, fresh>>

\* callback: time.sleep(body.count(b".")) returns and " [x] Done" is printed.
FinishWork(w) ==
    /\ wpc[w] = "Processing"
    /\ wpc' = [wpc EXCEPT ![w] = "Acknowledging"]
    /\ procLog' = Append(procLog,
                         [id |-> Head(delivered[w]).id, worker |-> w,
                          secs |-> Count(published[Head(delivered[w]).id], ".")])
    /\ UNCHANGED <<prodVars, brokerVars, delivered, nextTag, wexit,
                   deliveries, holderDisc, ackLog, fresh>>

\* The connection of worker w is gone: the broker requeues what w held
\* unacknowledged and drops w from the rotation; the client's buffer dies with
\* the process.  holderDisc counts the disconnect for the deliveries the worker
\* had received and not finished.
CloseConsumer(w) ==
    /\ pending' = Requeue(pending, unacked[w])
    /\ unacked' = [unacked EXCEPT ![w] = <<>>]
    /\ consumers' = Without(consumers, w)
    /\ delivered' = [delivered EXCEPT ![w] = <<>>]
    /\ holderDisc' = [i \in DOMAIN holderDisc |->
                        holderDisc[i] + (IF i \in Ids(delivered[w]) THEN 1 ELSE 0)]
    /\ fresh' = {}

\* callback: ch.basic_ack(delivery_tag=method.delivery_tag), then back to the
\* consume loop (into callback again if a delivery is buffered).  The broker
\* removes the delivery with that tag; a tag it does not hold unacknowledged is a
\* channel error (PRECONDITION_FAILED), which ends the worker with an uncaught
\* exception.  basic_nack would instead requeue the message.
Acknowledge(w) ==
    /\ wpc[w] = "Acknowledging"
    /\ LET d == Head(delivered[w]) IN
       IF \E i \in DOMAIN unacked[w] : unacked[w][i] = d
       THEN /\ unacked' = [unacked EXCEPT ![w] = Without(@, d)]
            /\ IF AckVerb = "basic_ack"
               THEN /\ acked' = acked \cup {d.id}
                    /\ pending' = pending
               ELSE /\ acked' = acked
                    /\ pending' = Requeue(pending, <<d>>)
            /\ ackLog' = Append(ackLog, [id |-> d.id, worker |-> w, tag |-> d.tag,
                                             by |-> "callback"])
            /\ delivered' = [delivered EXCEPT ![w] = Tail(@)]
            /\ wpc' = [wpc EXCEPT ![w] =
                         IF Tail(delivered[w]) = <<>> THEN "Awaiting" ELSE "Processing"]
            /\ UNCHANGED <<consumers, wexit, holderDisc, fresh>>
       ELSE /\ CloseConsumer(w)
            /\ wpc' = [wpc EXCEPT ![w] = "Disconnected"]
            /\ wexit' = WorkerExit(w, "channel_error", 1)
            /\ ackLog' = Append(ackLog, [id |-> d.id, worker |-> w, tag |-> d.tag,
                                             by |-> "callback"])
            /\ UNCHANGED acked
    /\ UNCHANGED <<prodVars, qexists, published, restarts, nextTag, deliveries, procLog>>

\* The worker's process ends, in any state: by Ctrl+C ("interrupt": the
\* KeyboardInterrupt handler of __main__ prints and calls os._exit(0)) or by
\* a crash or a lost connection ("crash": nothing catches it, status 1).  The
\* shutdown path sends no acknowledgment; the socket closes with the process.
Disconnect(w, how) ==
    /\ wpc[w] # "Disconnected"
    /\ Launched(w)
    /\ wpc' = [wpc EXCEPT ![w] = "Disconnected"]
    /\ wexit' = WorkerExit(w, how,
                            IF how = "interrupt" THEN interrupt_exit_status ELSE 1)
    /\ IF ShutdownAcks /\ how = "interrupt" /\ unacked[w] # <<>>
       THEN /\ acked' = acked \cup Ids(unacked[w])
            /\ ackLog' = ackLog \o [i \in DOMAIN unacked[w] |->
                           [id |-> unacked[w][i].id, worker |-> w,
                            tag |-> unacked[w][i].tag, by |-> "shutdown"]]
            /\ unacked' = [unacked EXCEPT ![w] = <<>>]
            /\ consumers' = Without(consumers, w)
            /\ delivered' = [delivered EXCEPT ![w] = <<>>]
            /\ fresh' = {}
            /\ UNCHANGED <<pending, holderDisc>>
       ELSE /\ CloseConsumer(w)
            /\ UNCHANGED <<acked, ackLog>>
    /\ UNCHANGED <<prodVars, qexists, published, restarts, nextTag, deliveries, procLog>>

\* The broker restarts.  Every connection is lost: start_consuming raises in
\* each connected worker, nothing catches it, and the worker ends with status
\* 1.  The durable queue is still declared afterwards and holds the messages
\* that survive.
RECURSIVE AllUnacked(_)
AllUnacked(ws) ==
    IF ws = {} THEN <<>>
    ELSE LET w == CHOOSE x \in ws : TRUE
         IN Requeue(AllUnacked(ws \ {w}), unacked[w])

Connected(w) == wpc[w] \in {"Awaiting", "Processing", "Acknowledging"}

BrokerRestart ==
    /\ restarts < MaxRestarts
    /\ restarts' = restarts + 1
    /\ qexists' = (qexists /\ queue_durable)
    /\ pending' = SurvivesRestart(Merge(pending, AllUnacked(Workers)))
    /\ unacked' = [w \in Workers |-> <<>>]
    /\ consumers' = <<>>
    /\ delivered' = [w \in Workers |-> <<>>]
    /\ holderDisc' = [i \in DOMAIN holderDisc |->
                        holderDisc[i] +
                        (IF \E w \in Workers : i \in Ids(delivered[w]) THEN 1 ELSE 0)]
    /\ wpc' = [w \in Workers |-> IF Connected(w) THEN "Disconnected" ELSE wpc[w]]
    /\ wexit' = IF \E w \in Workers : Connected(w)
                THEN WorkerExit(0, "connection_lost", 1)
                ELSE wexit
    /\ fresh' = {}
    /\ UNCHANGED <<prodVars, published, acked, nextTag, deliveries, procLog, ackLog>>

\* ---------------------------------------------------------- specification

Init ==
    /\ ppc = "start"
    /\ tasks = <<>>
    /\ idx = 1
    /\ pexit = Running
    /\ perrors = {}
    /\ csvfile = Missing
    /\ qexists = FALSE
    /\ published = <<>>
    /\ pending = <<>>
    /\ unacked = [w \in Workers |-> <<>>]
    /\ consumers = <<>>
    /\ acked = {}
    /\ restarts = 0
    /\ wpc = [w \in Workers |-> "Idle"]
    /\ delivered = [w \in Workers |-> <<>>]
    /\ nextTag = [w \in Workers |-> 1]
    /\ wexit = NoExit
    /\ deliveries = <<>>
    /\ holderDisc = <<>>
    /\ procLog = <<>>
    /\ ackLog = <<>>
    /\ fresh = {}

Next ==
    \/ \E file \in Files : ReadTasks(file)
    \/ SendMessage
    \/ \E at \in {"connect", "lost"} : SendMessageFails(at)
    \/ \E w \in Workers : StartWorker(w)
    \/ \E w \in Workers : Deliver(w)
    \/ \E w \in Workers : FinishWork(w)
    \/ \E w \in Workers : Acknowledge(w)
    \/ \E w \in Workers, how \in {"interrupt", "crash"} : Disconnect(w, how)

Spec == Init /\ [][Next]_vars

\* The broker dispatches whenever it can, a sleep returns, and a callback that
\* has slept goes on to its basic_ack.
Fairness ==
    /\ WF_vars(\E w \in Workers : Deliver(w))
    /\ \A w \in Workers : WF_vars(FinishWork(w)) /\ WF_vars(Acknowledge(w))

FairSpec == Spec /\ Fairness

\* The same system with a broker that may restart.
NextRestart == Next \/ BrokerRestart

SpecRestart == Init /\ [][NextRestart]_vars

\* The dispatch scenario: the producer has published its whole batch, some
\* workers (at most as many as there are tasks) are connected and waiting, in
\* any rotation order, the other workers never start, and nothing has been
\* delivered yet.
Rotations == UNION { { r \in [1..n -> 1..n] :
                         \A i, j \in 1..n : r[i] = r[j] => i = j } : n \in 1..NumWorkers }

InitFair ==
    /\ ppc = "done"
    /\ tasks \in { ReadRows(f.rows) : f \in Files } \ {<<>>}
    /\ idx = Len(tasks) + 1
    /\ pexit = Exited(0)
    /\ perrors = {}
    /\ csvfile = Missing
    /\ qexists = TRUE
    /\ published = tasks
    /\ pending = [i \in 1..Len(tasks) |-> i]
    /\ unacked = [w \in Workers |-> <<>>]
    /\ consumers \in { r \in Rotations : Len(r) <= Len(tasks) }
    /\ acked = {}
    /\ restarts = 0
    /\ wpc = [w \in Workers |->
                IF w \in SeqToSet(consumers) THEN "Awaiting" ELSE "Idle"]
    /\ delivered = [w \in Workers |-> <<>>]
    /\ nextTag = [w \in Workers |-> 1]
    /\ wexit = NoExit
    /\ deliveries = [i \in 1..Len(tasks) |-> 0]
    /\ holderDisc = [i \in 1..Len(tasks) |-> 0]
    /\ procLog = <<>>
    /\ ackLog = <<>>
    /\ fresh = {}

NextFair ==
    \/ \E w \in Workers : Deliver(w)
    \/ \E w \in Workers : FinishWork(w)
    \/ \E w \in Workers : Acknowledge(w)
    \/ \E w \in Workers, how \in {"interrupt", "crash"} : Disconnect(w, how)

SpecFair == InitFair /\ [][NextFair]_vars

\* One-task batches: the payloads are the strings of at most MaxPayload
\* characters over a letter and the marker, and the payload "B".
Payloads == {<<"B">>} \cup
            UNION { [1..n -> {"A", "."}] : n \in 0..MaxPayload }

\* The producer has published a batch of one task, read from a file of one
\* record, and no worker has started.
InitWork ==
    /\ \E p \in Payloads : csvfile = [exists |-> TRUE, rows |-> << <<p>> >>]
    /\ tasks = ReadRows(csvfile.rows)
    /\ ppc = "done"
    /\ idx = Len(tasks) + 1
    /\ pexit = Exited(0)
    /\ perrors = {}
    /\ qexists = TRUE
    /\ published = tasks
    /\ pending = [i \in 1..Len(tasks) |-> i]
    /\ unacked = [w \in Workers |-> <<>>]
    /\ consumers = <<>>
    /\ acked = {}
    /\ restarts = 0
    /\ wpc = [w \in Workers |-> "Idle"]
    /\ delivered = [w \in Workers |-> <<>>]
    /\ nextTag = [w \in Workers |-> 1]
    /\ wexit = NoExit
    /\ deliveries = [i \in 1..Len(tasks) |-> 0]
    /\ holderDisc = [i \in 1..Len(tasks) |-> 0]
    /\ procLog = <<>>
    /\ ackLog = <<>>
    /\ fresh = {}

NextWork ==
    \/ \E w \in Workers : StartWorker(w)
    \/ NextFair

SpecWork == InitWork /\ [][NextWork]_vars

\* The producer alone, on a tasks.csv drawn from CsvFiles at the start.
InitCsv ==
    /\ csvfile \in CsvFiles
    /\ ppc = "start"
    /\ tasks = <<>>
    /\ idx = 1
    /\ pexit = Running
    /\ perrors = {}
    /\ qexists = FALSE
    /\ published = <<>>
    /\ pending = <<>>
    /\ unacked = [w \in Workers |-> <<>>]
    /\ consumers = <<>>
    /\ acked = {}
    /\ restarts = 0
    /\ wpc = [w \in Workers |-> "Idle"]
    /\ delivered = [w \in Workers |-> <<>>]
    /\ nextTag = [w \in Workers |-> 1]
    /\ wexit = NoExit
    /\ deliveries = <<>>
    /\ holderDisc = <<>>
    /\ procLog = <<>>
    /\ ackLog = <<>>
    /\ fresh = {}

NextCsv ==
    \/ ReadTasks(csvfile)
    \/ SendMessage
    \/ \E at \in {"connect", "lost"} : SendMessageFails(at)

SpecCsv == InitCsv /\ [][NextCsv]_vars

\* ------------------------------------------------------------- properties

MsgIds == 1..MaxRows
Published(id) == id \in DOMAIN published
InPending(id) == \E i \in DOMAIN pending : pending[i] = id
HeldBy(w, id) == id \in Ids(unacked[w])
Held(id) == \E w \in Workers : HeldBy(w, id)
InQueue(id) == InPending(id) \/ Held(id)
\* Worker w's process ends in this step.
Disconnects(w) == wpc[w] # "Disconnected" /\ wpc'[w] = "Disconnected"
\* This step delivers message id to some worker.
Delivers(id) == Published(id) /\ deliveries'[id] = deliveries[id] + 1
LogIds(log) == [i \in DOMAIN log |-> log[i].id]

\* What a worker held when its process ends is ready again after that step.
C1_Requeued ==
    [][\A w \in Workers : Disconnects(w) =>
          \A id \in Ids(unacked[w]) \cup Ids(delivered[w]) :
              id \notin acked => InPending(id)']_vars
\* Every published task is ready, unacknowledged or acknowledged.
C1_NeverDropped ==
    [](\A id \in MsgIds : Published(id) => InQueue(id) \/ id \in acked)
\* If from some point on some worker is always connected, a requeued task is
\* held by a worker again.
C1_Redelivered ==
    (<>[](\E w \in Workers : Connected(w))) =>
        \A id \in MsgIds :
            (Published(id) /\ InPending(id) /\ holderDisc[id] >= 1) ~> Held(id)
\* C1 -- A task whose holder disconnects before acknowledging it goes back
\* to the ready list in that very step; no published task is ever outside
\* ready, unacknowledged and acknowledged; and, with fair dispatch and some
\* worker connected from some point on, a requeued task is delivered again.
C1_RequeueAndRedeliver == C1_Requeued /\ C1_NeverDropped /\ C1_Redelivered
\* A task is held again after its holder disconnected.
C1_Witness ==
    \E id \in MsgIds : Published(id) /\ holderDisc[id] >= 1 /\ Held(id)

\* C2 -- A task leaves the queue (ready and unacknowledged) only in a step
\* in which the broker receives the callback's basic_ack for it; no delivery,
\* start or end of work, or disconnect removes one.
C2_NoPrematureRemoval ==
    [][\A id \in MsgIds :
          (Published(id) /\ InQueue(id) /\ ~InQueue(id)') =>
              /\ id \in acked' \ acked
              /\ Len(ackLog') = Len(ackLog) + 1
              /\ ackLog'[Len(ackLog')].id = id
              /\ ackLog'[Len(ackLog')].by = "callback"
              /\ \E w \in Workers : wpc[w] = "Acknowledging" /\ HeldBy(w, id)]_vars
\* A task has been removed by its acknowledgment, after an earlier holder of
\* it had disconnected.
C2_Witness ==
    \E id \in MsgIds :
        Published(id) /\ ~InQueue(id) /\ id \in acked /\ holderDisc[id] >= 1

\* C3 -- Every worker holds at most one delivered-unacknowledged task, at
\* the broker and in its client, and a delivery goes only to a worker that
\* holds none.
C3_PrefetchCap ==
    \A w \in Workers :
        /\ Len(unacked[w]) <= 1
        /\ Len(delivered[w]) <= 1
        /\ nextTag[w] - 1 <= Cardinality({i \in DOMAIN ackLog : ackLog[i].worker = w}) + 1
\* A worker holds one task while another is ready and it is the only consumer.
C3_Witness ==
    \E w \in Workers :
        /\ Len(unacked[w]) = 1
        /\ pending # <<>>
        /\ consumers = <<w>>
        /\ wpc[w] = "Processing"

\* The deliveries worker w has received: tags count from 1.
Received(w) == nextTag[w] - 1
C5_Durability ==
    [][restarts' # restarts =>
          \A id \in MsgIds : InPending(id) => InPending(id)']_vars

\* C6 -- The step that ends a worker sends no acknowledgment: no ack is
\* logged or received, and what the worker held is unacknowledged and ready
\* afterwards.
C6_CancelNeverAcks ==
    [][\A w \in Workers : Disconnects(w) =>
          /\ acked' = acked
          /\ ackLog' = ackLog
          /\ \A id \in Ids(delivered[w]) :
                 id \notin acked' /\ InPending(id)' /\ ~Held(id)']_vars
\* A worker interrupted in its sleep has exited with status 0 and its task is
\* ready again, its work never completed.
C6_Witness ==
    \E w \in Workers, id \in MsgIds :
        /\ Published(id)
        /\ wexit = WorkerExit(w, "interrupt", interrupt_exit_status)
        /\ nextTag[w] = 2
        /\ holderDisc[id] = 1
        /\ InPending(id)
        /\ procLog = <<>>

\* Worker w is connected and no other worker has ever started.
OnlyWorker(w) ==
    wpc[w] \notin {"Idle", "Disconnected"} /\ \A v \in Workers \ {w} : wpc[v] = "Idle"
\* C7 -- While exactly one worker has ever run and it has not disconnected,
\* work is completed and acknowledged in publication order, task by task, no
\* task is delivered twice, and once every published task is acknowledged
\* nothing is ready or unacknowledged.
C7_SingleWorkerFifo ==
    \A w \in Workers : OnlyWorker(w) =>
        /\ LogIds(procLog) = [i \in 1..Len(procLog) |-> i]
        /\ LogIds(ackLog) = [i \in 1..Len(ackLog) |-> i]
        /\ Len(ackLog) <= Len(procLog) /\ Len(procLog) <= Len(ackLog) + 1
        /\ \A id \in DOMAIN published : deliveries[id] <= 1
        /\ \A id \in DOMAIN published :
               deliveries[id] = 1 <=> id <= Len(procLog) \/ id \in Ids(delivered[w])
        /\ Len(ackLog) = Len(published) =>
               pending = <<>> /\ \A v \in Workers : unacked[v] = <<>>
\* One worker has acknowledged the whole batch of three.
C7_Witness ==
    \E w \in Workers :
        /\ OnlyWorker(w)
        /\ ppc = "done"
        /\ Len(published) = 3
        /\ Len(ackLog) = 3

\* The holder of task id disconnected and the task has not been delivered since.
Orphaned(id) ==
    /\ Published(id)
    /\ holderDisc[id] >= 1
    /\ id \notin acked
    /\ \A w \in Workers : id \notin Ids(delivered[w])
    /\ deliveries[id] = holderDisc[id]
LaterReady(t) == \E i \in DOMAIN pending : pending[i] > t
\* This step delivers message id to a worker that connected after the last
\* disconnect.
DeliversToFresh(id) ==
    /\ Delivers(id)
    /\ \E w \in fresh : nextTag'[w] = nextTag[w] + 1
\* C8 (as claimed) -- While a task whose holder disconnected waits to be
\* delivered again and a later-published task is ready, the next delivery to
\* a worker that connected afterwards is that task.
C8_NextDeliveryIsT ==
    [][\A t \in MsgIds, d \in MsgIds :
          (Orphaned(t) /\ LaterReady(t) /\ DeliversToFresh(d)) => d = t]_vars
\* C8 (amended) -- While a task whose holder disconnected waits to be
\* delivered again, the next delivery is never a task published after it: it
\* is that task, or an earlier-published one whose holder disconnected too.
C8_NextDeliveryNotLater ==
    [][\A t \in MsgIds, d \in MsgIds :
          (Orphaned(t) /\ Delivers(d)) =>
              d = t \/ (d < t /\ Orphaned(d))]_vars
\* A task is held again after its holder disconnected while a later one was
\* ready, and the later one is still ready.
C8_Witness ==
    \E t \in MsgIds :
        /\ Published(t) /\ Published(t + 1)
        /\ holderDisc[t] >= 1
        /\ Held(t)
        /\ InPending(t + 1)
        /\ deliveries[t + 1] = 0

\* C9 -- A task has been delivered once per disconnect of its holder, plus
\* once more unless it is ready: never more than 1 + its holder's disconnects,
\* and exactly once while its holder never disconnected.
C9_RedeliveryCount ==
    \A id \in DOMAIN published :
        /\ deliveries[id] <= 1 + holderDisc[id]
        /\ deliveries[id] = holderDisc[id] + (IF InPending(id) THEN 0 ELSE 1)
        /\ (holderDisc[id] = 0 /\ ~InPending(id)) => deliveries[id] = 1
\* A task has been delivered three times after two disconnects.
C9_Witness ==
    \E id \in DOMAIN published : deliveries[id] = 3 /\ holderDisc[id] = 2

ProducerFailed == ppc = "failed"
\* Printing an error ends the producer, and an ended-in-failure producer has
\* printed an error and has a non-zero exit status.
C10_Reported ==
    /\ [][perrors' # perrors => ProducerFailed']_vars
    /\ [](ProducerFailed => perrors # {} /\ pexit # Running /\ pexit # Exited(0))
\* A failed producer publishes nothing and does not go on in its batch.
C10_NothingAfter ==
    [][ProducerFailed => published' = published /\ idx' = idx]_vars
\* C10 -- Once the producer has met a connection failure or a missing task
\* file, it has printed the error and exited with a non-zero status, and
\* nothing is published from then on.
C10_FailFast == C10_Reported /\ C10_NothingAfter
\* The producer failed in mid-batch while a worker was still connected.
C10_Witness ==
    /\ ProducerFailed
    /\ Len(published) >= 1
    /\ Len(published) < Len(tasks)
    /\ \E w \in Workers : wpc[w] = "Awaiting"

\* An empty record: a blank line, or a record whose first field is empty.
EmptyRecord(r) == r = << >> \/ r[1] = << >>
\* The records of the file that are not empty, in order.
TaskRecords(rows) == SelectSeq(rows, LAMBDA r : ~EmptyRecord(r))
\* C11 -- The messages published are the first fields of the file's
\* non-empty records, in order: no message is published for a blank record
\* or for a record whose first field is the empty string.
C11_EmptyRecordsSkipped ==
    /\ Len(published) <= Len(TaskRecords(csvfile.rows))
    /\ \A i \in DOMAIN published :
           /\ published[i] # << >>
           /\ published[i] = TaskRecords(csvfile.rows)[i][1]

\* How many of ready, delivered-unacknowledged and acknowledged task id is in.
PlacesOf(id) ==
    (IF InPending(id) THEN 1 ELSE 0) + (IF Held(id) THEN 1 ELSE 0)
        + (IF id \in acked THEN 1 ELSE 0)
\* C12 -- Every published task is in exactly one of ready,
\* delivered-unacknowledged and acknowledged; it is ready at most once, and
\* a delivered-unacknowledged task is held once, by exactly one worker, which
\* is connected and has received it.
C12_TaskPartition ==
    /\ \A id \in DOMAIN published :
           /\ PlacesOf(id) = 1
           /\ Cardinality({ i \in DOMAIN pending : pending[i] = id }) <= 1
           /\ Cardinality({ w \in Workers : HeldBy(w, id) }) <= 1
           /\ \A w \in Workers : HeldBy(w, id) =>
                  /\ Connected(w)
                  /\ Cardinality({ i \in DOMAIN unacked[w] : unacked[w][i].id = id }) = 1
                  /\ id \in Ids(delivered[w])
    /\ \A w \in Workers :
           Ids(unacked[w]) \cup Ids(delivered[w]) \subseteq DOMAIN published
    /\ SeqToSet(pending) \cup acked \subseteq DOMAIN published
\* One task is ready again after its holder disconnected, another is held by
\* a worker and a third is acknowledged.
C12_Witness ==
    \E a, b, c \in DOMAIN published :
        /\ InPending(a) /\ holderDisc[a] >= 1
        /\ Held(b)
        /\ c \in acked

\* This step sends an acknowledgment: the last entry of ackLog' is new.
Acks == Len(ackLog') = Len(ackLog) + 1
LastAck == ackLog'[Len(ackLog')]
\* An acknowledgment is sent by a worker whose simulated work is over, for
\* the delivery its callback was entered with, under the tag the broker holds
\* as that worker's unacknowledged delivery.
C13_OwnDelivery ==
    [][Acks =>
          /\ Len(ackLog') <= Len(ackLog) + 1
          /\ wpc[LastAck.worker] = "Acknowledging"
          /\ [tag |-> LastAck.tag, id |-> LastAck.id] = Head(delivered[LastAck.worker])
          /\ [tag |-> LastAck.tag, id |-> LastAck.id]
                 \in SeqToSet(unacked[LastAck.worker])
          /\ LastAck.tag < nextTag[LastAck.worker]]_vars
\* No delivery is acknowledged twice, and the broker has never rejected an
\* acknowledgment for an unknown tag.
C13_AtMostOnce ==
    [](/\ \A i, j \in DOMAIN ackLog :
              (ackLog[i].worker = ackLog[j].worker /\ ackLog[i].tag = ackLog[j].tag)
                  => i = j
       /\ wexit.how # "channel_error")
\* C13 -- A worker acknowledges only the delivery tag of the delivery it
\* received on its own channel and has finished working on, each delivery at
\* most once; no acknowledgment is for a tag the broker does not hold for
\* that worker.
C13_AckDiscipline == C13_OwnDelivery /\ C13_AtMostOnce
\* A worker has acknowledged its deliveries 1 and 2, and another worker has
\* acknowledged, under its own tag 1, a task whose first holder disconnected.
C13_Witness ==
    \E i, j, k \in DOMAIN ackLog :
        /\ ackLog[i].worker = ackLog[j].worker
        /\ ackLog[i].tag = 1 /\ ackLog[j].tag = 2
        /\ ackLog[k].worker # ackLog[i].worker
        /\ ackLog[k].tag = 1
        /\ holderDisc[ackLog[k].id] >= 1

\* The occurrences of the marker in payload p, counted as a set of positions.
Markers(p) == Cardinality({ k \in DOMAIN p : p[k] = "." })
\* C14 -- Every completed simulated work lasted as many time-units as its
\* task's payload has '.' characters ("A...." 4, "B" 0), so completions
\* of the same task lasted the same, whichever worker did them and whether
\* on a first delivery or a redelivery.
C14_CostDeterminism ==
    /\ \A i \in DOMAIN procLog :
           procLog[i].secs = Markers(published[procLog[i].id])
    /\ \A i, j \in DOMAIN procLog :
           published[procLog[i].id] = published[procLog[j].id]
               => procLog[i].secs = procLog[j].secs
    /\ Count(<<"A", ".", ".", ".", ".">>, ".") = 4
    /\ Count(<<"B">>, ".") = 0
\* The task "A...." has been worked on for 4 time-units by a worker that
\* then disconnected, and again for 4 by the worker it was redelivered to.
C14_Witness ==
    \E i, j \in DOMAIN procLog :
        /\ i < j
        /\ procLog[i].id = procLog[j].id
        /\ procLog[i].worker # procLog[j].worker
        /\ published[procLog[i].id] = <<"A", ".", ".", ".", ".">>
        /\ procLog[i].secs = 4 /\ procLog[j].secs = 4
        /\ wpc[procLog[i].worker] = "Disconnected"
        /\ deliveries[procLog[j].id] = 2

\* After an acknowledgment the worker is connected and consuming: it awaits
\* the next delivery, also when nothing is ready.
C15_LoopsAfterAck ==
    [][\A w \in Workers :
          (Acks /\ LastAck.worker = w) =>
              /\ wpc'[w] = "Awaiting"
              /\ w \in SeqToSet(consumers')]_vars
\* A worker's process ends only by an interrupt or by a crash or lost
\* connection, never as a step of its own consume loop.
C15_OnlyExternalStop ==
    [][\A w \in Workers : Disconnects(w) =>
          /\ wexit'.worker = w
          /\ wexit'.how \in {"interrupt", "crash"}]_vars
\* A worker ended by an interrupt exits with status 0; the broker no longer
\* has it as a consumer, holds nothing unacknowledged for it, and what it
\* held is ready again.
C15_InterruptExit ==
    [][\A w \in Workers :
          (Disconnects(w) /\ wexit'.how = "interrupt") =>
              /\ wexit'.status = Exited(0)
              /\ w \notin SeqToSet(consumers')
              /\ unacked'[w] = <<>>
              /\ \A id \in Ids(unacked[w]) : InPending(id)']_vars
\* C15 -- A worker never stops on its own: after each acknowledgment it
\* is back to awaiting a delivery, also with an empty queue, and its process
\* ends only by an interrupt or a crash or lost connection; ended by an
\* interrupt it exits with status 0, its connection is gone with it, and the
\* broker has requeued what it held.
C15_WorkerLifetime == C15_LoopsAfterAck /\ C15_OnlyExternalStop /\ C15_InterruptExit
\* A worker was interrupted while it held a task and exited with status 0;
\* another worker acknowledged that task and now awaits with the queue empty.
C15_Witness ==
    \E w, v \in Workers :
        /\ wexit = WorkerExit(w, "interrupt", 0)
        /\ wpc[v] = "Awaiting"
        /\ ackLog # <<>>
        /\ ackLog[Len(ackLog)].worker = v
        /\ holderDisc[ackLog[Len(ackLog)].id] >= 1
        /\ ppc = "done"
        /\ pending = <<>>
        /\ \A id \in DOMAIN published : id \in acked

WorkerStates == {"Idle", "Awaiting", "Processing", "Acknowledging", "Disconnected"}
\* The transitions of the worker state machine.
WorkerTransitions ==
    { <<"Idle", "Awaiting">>, <<"Awaiting", "Processing">>,
      <<"Processing", "Acknowledging">>, <<"Acknowledging", "Awaiting">> }
        \cup { <<st, "Disconnected">> : st \in WorkerStates \ {"Disconnected"} }
\* Every change of a worker's state is one of the transitions.
C16_OnlyTransitions ==
    [][\A w \in Workers :
          wpc'[w] # wpc[w] => <<wpc[w], wpc'[w]>> \in WorkerTransitions]_vars
\* A disconnected worker stays disconnected, receives nothing and holds nothing.
C16_Terminal ==
    [][\A w \in Workers : wpc[w] = "Disconnected" =>
          /\ wpc'[w] = "Disconnected"
          /\ nextTag'[w] = nextTag[w]
          /\ unacked'[w] = <<>> /\ delivered'[w] = <<>>
          /\ w \notin SeqToSet(consumers')]_vars
\* In each of the other four states a launched worker can be disconnected,
\* and every worker is in one of the five states.
C16_CanDisconnect ==
    [](\A w \in Workers :
          /\ wpc[w] \in WorkerStates
          /\ (wpc[w] # "Disconnected" /\ Launched(w)) =>
                 ENABLED (Next /\ wpc'[w] = "Disconnected"))
\* An acknowledgment is for a delivery whose simulated work the same worker
\* has completed, as its last completed work.
C16_AckAfterWork ==
    [][Acks =>
          \E i \in DOMAIN procLog :
              /\ procLog[i].id = LastAck.id
              /\ procLog[i].worker = LastAck.worker
              /\ \A j \in DOMAIN procLog :
                     procLog[j].worker = LastAck.worker => j <= i]_vars
\* C16 -- Every worker transition is Idle -> Awaiting, Awaiting ->
\* Processing, Processing -> Acknowledging, Acknowledging -> Awaiting or
\* (any state) -> Disconnected; Disconnected is terminal and can be entered
\* from each of the other four states; and an acknowledgment is sent only
\* after the simulated work for that delivery has completed.
C16_StateMachine ==
    C16_OnlyTransitions /\ C16_Terminal /\ C16_CanDisconnect /\ C16_AckAfterWork
\* Three workers are disconnected: one left after acknowledging its delivery
\* (from Awaiting), one after completing work it never acknowledged (from
\* Acknowledging), one during its work (from Processing).
C16_Witness ==
    \E a, b, c \in Workers :
        /\ wpc[a] = "Disconnected" /\ wpc[b] = "Disconnected" /\ wpc[c] = "Disconnected"
        /\ nextTag[a] = 2 /\ nextTag[b] = 2 /\ nextTag[c] = 2
        /\ \E i \in DOMAIN ackLog : ackLog[i].worker = a
        /\ \E i \in DOMAIN procLog : procLog[i].worker = b
        /\ \A i \in DOMAIN ackLog : ackLog[i].worker # b
        /\ \A i \in DOMAIN procLog : procLog[i].worker # c

\* This step declares the queue: a worker starts, or the producer publishes.
StartsWorker == \E w \in Workers : wpc[w] = "Idle" /\ wpc'[w] = "Awaiting"
Publishes == Len(published') = Len(published) + 1
\* C17 -- A step that declares the queue while it exists leaves the ready
\* tasks and their order as they were (a publish adds its own task at the
\* back) and leaves every worker's delivered-unacknowledged task as it was;
\* declaring never makes the queue absent, and declaring the queue as it is
\* twice gives what declaring it once gives.
C17_IdempotentDeclare ==
    /\ [][(StartsWorker /\ qexists) =>
              qexists' /\ pending' = pending /\ unacked' = unacked
                  /\ delivered' = delivered /\ acked' = acked]_vars
    /\ [][(Publishes /\ qexists) =>
              qexists' /\ pending' = Append(pending, Len(published'))
                  /\ unacked' = unacked /\ delivered' = delivered
                  /\ acked' = acked]_vars
    /\ [](queue_declare(queue_declare(Queue)) = queue_declare(Queue))
    /\ [](qexists => queue_declare(Queue) = Queue)
\* A worker has started, and the producer has published its last task, while
\* a task requeued by a disconnect was ready and another worker held a task.
C17_Witness ==
    \E w, v \in Workers :
        /\ w \in fresh /\ wpc[w] = "Awaiting" /\ nextTag[w] = 1
        /\ v # w /\ unacked[v] # <<>>
        /\ Len(pending) >= 2
        /\ holderDisc[pending[1]] >= 1
        /\ deliveries[pending[Len(pending)]] = 0
        /\ ppc = "done"

\* The completed simulated works for task id.
Processings(id) == Cardinality({ i \in DOMAIN procLog : procLog[i].id = id })
\* C18 -- An acknowledged task has had its simulated work completed at
\* least once, by the worker that acknowledged it; the completed works of a
\* task are never more than its deliveries, and can be more than one (the
\* witness).
C18_AtLeastOnceProcessed ==
    /\ \A id \in DOMAIN published :
           /\ id \in acked => Processings(id) >= 1
           /\ Processings(id) <= deliveries[id]
    /\ \A k \in DOMAIN ackLog :
           \E i \in DOMAIN procLog :
               procLog[i].id = ackLog[k].id /\ procLog[i].worker = ackLog[k].worker
\* A worker completed the work for a task and disconnected before its
\* acknowledgment; the task was delivered to another worker, which completed
\* the work again and acknowledged it: two completed works for one task.
C18_Witness ==
    \E i, j \in DOMAIN procLog :
        /\ i < j
        /\ procLog[i].id = procLog[j].id
        /\ procLog[i].worker # procLog[j].worker
        /\ wpc[procLog[i].worker] = "Disconnected"
        /\ \A k \in DOMAIN ackLog : ackLog[k].worker # procLog[i].worker
        /\ \E k \in DOMAIN ackLog :
               ackLog[k].id = procLog[j].id /\ ackLog[k].worker = procLog[j].worker
        /\ procLog[j].id \in acked
        /\ Processings(procLog[j].id) = 2
        /\ deliveries[procLog[j].id] = 2

\* Nothing is ready and no worker holds an unacknowledged task.
QueueEmpty == pending = <<>> /\ \A w \in Workers : unacked[w] = <<>>
\* C19 -- With fair dispatch, sleep and acknowledgment: if from some point
\* on some worker is connected, then every published task is eventually
\* acknowledged, and from some point on the queue is empty and every
\* published task is acknowledged, whichever other workers have started and
\* disconnected meanwhile.
C19_EventualCompletion ==
    (<>[](\E w \in Workers : Connected(w))) =>
        /\ \A id \in MsgIds : Published(id) ~> (id \in acked)
        /\ <>[](QueueEmpty /\ \A id \in DOMAIN published : id \in acked)
\* The whole batch of three is acknowledged and the queue is empty, one
\* worker is connected and waiting, and two others disconnected while they
\* held tasks.
C19_Witness ==
    /\ ppc = "done" /\ Len(published) = 3
    /\ QueueEmpty
    /\ \A id \in DOMAIN published : id \in acked
    /\ \E w \in Workers :
           /\ wpc[w] = "Awaiting"
           /\ \A v \in Workers \ {w} : wpc[v] = "Disconnected" /\ nextTag[v] >= 2
    /\ \E a, b \in DOMAIN published : a # b /\ holderDisc[a] >= 1 /\ holderDisc[b] >= 1

\* C20 -- The messages the broker has accepted are, position by
\* position, the first tasks of the list the producer read from its file
\* (none twice, none skipped), also after the producer has failed; a step
\* publishes at most the one task that follows those published, and the
\* main loop is at the task after the last published one.
C20_PublishedPrefix ==
    /\ [](/\ Len(published) <= Len(tasks)
          /\ \A i \in DOMAIN published : published[i] = tasks[i]
          /\ Len(published) = idx - 1)
    /\ [][\/ published' = published
           \/ /\ ~ProducerFailed
              /\ Len(published) < Len(tasks)
              /\ published' = Append(published, tasks[Len(published) + 1])]_vars
\* The producer failed on its third task of three, two are published, and the
\* first has been acknowledged.
C20_Witness ==
    /\ ProducerFailed
    /\ Len(tasks) = 3
    /\ Len(published) = 2
    /\ idx = 3
    /\ 1 \in acked

====
